---- MODULE Spec2Model ----
(***************************************************************************)
(* Model of saveris_scraper/app.py: the measurement parser, the page       *)
(* extractor, one scrape cycle (scrape_once, open_browser, login), the     *)
(* scheduler thread (background_loop) and the /data reader.                *)
(*                                                                         *)
(* Text is a sequence of one-character strings.  An optional value         *)
(* (Python None or a value) is a record [some, v].  A float is a record    *)
(* [m, e] meaning m / 10^e with trailing zeros of the fraction removed.    *)
(***************************************************************************)
EXTENDS Integers, Sequences, FiniteSets, TLC

VARIABLES
    opts,         \* content of /data/options.json as load_options returns it
    EMAIL,        \* resolved at import
    PASSWORD,     \* resolved at import
    SCAN_INTERVAL,\* resolved at import
    latest,       \* the global _latest
    lock,         \* holder of _latest_lock
    pc,           \* position of the background_loop thread
    cycle,        \* number of scrape_once calls started
    driver,       \* local variable driver of scrape_once: 0 is None, else a session id
    serviceUp,    \* a chromedriver service process started by open_browser is running
    sessions,     \* browser sessions opened and not yet quit
    dom,          \* set of selectors that match in the page the browser shows
    ret,          \* return value of scrape_once being carried through finally
    exc,          \* exception propagating out of scrape_once ("none" when none)
    data,         \* local variable data of background_loop
    trace,        \* session-capability operations invoked in the current cycle
    results,      \* values returned by the finished scrape_once calls, in order
    writes,       \* number of assignments to _latest
    slept,        \* arguments of the time.sleep calls of background_loop, in order
    rpc,          \* position of each /data handler
    resp,         \* body a /data handler is returning, NoValue outside a request
    uTable,       \* table handed to parse_measuring_points on its own
    uOut,         \* its output
    uPc,          \* "ready" before the call, "done" after
    pLines,       \* lines of the text handed to parse_measurements_cell on its own
    pText,        \* the text: the lines joined by line breaks
    pOut,         \* its output
    pPc           \* "ready" before the call, "done" after

vars == <<opts, EMAIL, PASSWORD, SCAN_INTERVAL, latest, lock, pc, cycle, driver,
          serviceUp, sessions, dom, ret, exc, data, trace, results,
          writes, slept, rpc, resp, uTable, uOut, uPc, pLines, pText, pOut, pPc>>

schedVars == <<pc, cycle, driver, serviceUp, sessions, dom, ret, exc,
               data, trace, results, writes, slept>>
cfgVars == <<opts, EMAIL, PASSWORD, SCAN_INTERVAL>>
unitVars == <<uTable, uOut, uPc, pLines, pText, pOut, pPc>>

----------------------------------------------------------------------------
(* Bounds *)

MaxCycles == 2
NumReaders == 1
MaxRows == 4

----------------------------------------------------------------------------
(* Optional values and text *)

None == [some |-> FALSE, v |-> <<>>]
Some(x) == [some |-> TRUE, v |-> x]

Whitespace == {" ", "\n", "\t"}

RECURSIVE LStrip(_)
LStrip(s) ==
    IF s # <<>> /\ Head(s) \in Whitespace THEN LStrip(Tail(s)) ELSE s

RECURSIVE RStrip(_)
RStrip(s) ==
    IF s # <<>> /\ s[Len(s)] \in Whitespace
    THEN RStrip(SubSeq(s, 1, Len(s) - 1))
    ELSE s

\* str.strip()
Strip(s) == RStrip(LStrip(s))

\* (x or "") for an optional text x
OrEmpty(x) == IF x.some THEN x.v ELSE <<>>

\* (s or None) for a text s
OrNone(s) == IF s = <<>> THEN None ELSE Some(s)

LowerChar(c) ==
    CASE c = "C" -> "c"
      [] c = "T" -> "t"
      [] c = "D" -> "d"
      [] c = "R" -> "r"
      [] c = "H" -> "h"
      [] c = "G" -> "g"
      [] c = "M" -> "m"
      [] OTHER -> c

\* str.lower()
Lower(s) == [i \in 1..Len(s) |-> LowerChar(s[i])]

\* sub in s
Contains(sub, s) ==
    \E i \in 1..(Len(s) - Len(sub) + 1) : SubSeq(s, i, i + Len(sub) - 1) = sub

\* str.splitlines(): the pieces between line breaks, no empty piece at the end
RECURSIVE SplitLines(_)
SplitLines(s) ==
    IF s = <<>> THEN <<>>
    ELSE IF \E i \in 1..Len(s) : s[i] = "\n"
         THEN LET k == CHOOSE i \in 1..Len(s) :
                          s[i] = "\n" /\ \A j \in 1..(i - 1) : s[j] # "\n"
              IN <<SubSeq(s, 1, k - 1)>> \o SplitLines(SubSeq(s, k + 1, Len(s)))
         ELSE <<s>>

----------------------------------------------------------------------------
(* _extract_float *)

Digits == {"0", "1", "2", "3", "4", "5", "6", "7", "8", "9"}

DigitVal(c) ==
    CASE c = "0" -> 0 [] c = "1" -> 1 [] c = "2" -> 2 [] c = "3" -> 3
      [] c = "4" -> 4 [] c = "5" -> 5 [] c = "6" -> 6 [] c = "7" -> 7
      [] c = "8" -> 8 [] c = "9" -> 9

\* length of the longest run of digits of s starting at position i
RECURSIVE DigitRun(_, _)
DigitRun(s, i) ==
    IF i <= Len(s) /\ s[i] \in Digits THEN 1 + DigitRun(s, i + 1) ELSE 0

RECURSIVE DigitsValue(_)
DigitsValue(ds) ==
    IF ds = <<>> THEN 0
    ELSE 10 * DigitsValue(SubSeq(ds, 1, Len(ds) - 1)) + DigitVal(ds[Len(ds)])

\* float(): m / 10^e, the fraction's trailing zeros dropped, -0 equal to 0
RECURSIVE Float(_, _)
Float(m, e) ==
    IF e > 0 /\ m % 10 = 0 THEN Float(m \div 10, e - 1) ELSE [m |-> m, e |-> e]

\* re.match(r"\s*([+-]?\d+(?:\.\d+)?)", s.strip()) and float(m.group(1))
_extract_float(s) ==
    IF s = <<>> THEN None
    ELSE LET t == LStrip(Strip(s))
             signed == t # <<>> /\ t[1] \in {"+", "-"}
             neg == signed /\ t[1] = "-"
             i0 == IF signed THEN 2 ELSE 1
             n == DigitRun(t, i0)
             dot == i0 + n
             f == IF dot <= Len(t) /\ t[dot] = "." THEN DigitRun(t, dot + 1) ELSE 0
             intPart == SubSeq(t, i0, i0 + n - 1)
             fracPart == SubSeq(t, dot + 1, dot + f)
             mag == DigitsValue(intPart \o fracPart)
         IN IF n = 0 THEN None
            ELSE Some(Float(IF neg THEN 0 - mag ELSE mag, f))

----------------------------------------------------------------------------
(* parse_measurements_cell *)

DewMarker == <<"°", "c", " ", "t", "d">>
RhMarker == <<"%", "r", "h">>
AbsMarkerSup == <<"g", "/", "m", "³">>
AbsMarker3 == <<"g", "/", "m", "3">>
TempMarker == <<"°", "c">>

EmptyMeasurements ==
    [temperature_c |-> None, humidity_pct |-> None,
     dew_point_c |-> None, absolute_humidity_gm3 |-> None]

\* lines = [ln.strip() for ln in (cell_text or "").splitlines() if ln.strip()]
RECURSIVE NonEmptyStripped(_)
NonEmptyStripped(ls) ==
    IF ls = <<>> THEN <<>>
    ELSE IF Strip(Head(ls)) # <<>>
         THEN <<Strip(Head(ls))>> \o NonEmptyStripped(Tail(ls))
         ELSE NonEmptyStripped(Tail(ls))

\* variant: the "°c" test comes first in the chain
ParseLineTempFirst(out, ln) ==
    LET l == Lower(ln)
        v == _extract_float(ln)
    IN IF ~v.some THEN out
       ELSE IF Contains(TempMarker, l) THEN [out EXCEPT !.temperature_c = v]
       ELSE IF Contains(DewMarker, l) THEN [out EXCEPT !.dew_point_c = v]
       ELSE IF Contains(RhMarker, l) THEN [out EXCEPT !.humidity_pct = v]
       ELSE IF Contains(AbsMarkerSup, l) \/ Contains(AbsMarker3, l)
            THEN [out EXCEPT !.absolute_humidity_gm3 = v]
       ELSE out

\* one iteration of the loop over the lines
ParseLine(out, ln) ==
    LET l == Lower(ln)
        v == _extract_float(ln)
    IN IF ~v.some THEN out
       ELSE IF Contains(DewMarker, l) THEN [out EXCEPT !.dew_point_c = v]
       ELSE IF Contains(RhMarker, l) THEN [out EXCEPT !.humidity_pct = v]
       ELSE IF Contains(AbsMarkerSup, l) \/ Contains(AbsMarker3, l)
            THEN [out EXCEPT !.absolute_humidity_gm3 = v]
       ELSE IF Contains(TempMarker, l) THEN [out EXCEPT !.temperature_c = v]
       ELSE out

\* variant: a field keeps the value of the first line that set it
RECURSIVE ParseLinesFirstWins(_, _)
ParseLinesFirstWins(out, ls) ==
    IF ls = <<>> THEN out
    ELSE LET new == ParseLine(EmptyMeasurements, Head(ls))
             keep(f) == IF out[f].some THEN out[f] ELSE new[f]
         IN ParseLinesFirstWins(
                [temperature_c |-> keep("temperature_c"),
                 humidity_pct |-> keep("humidity_pct"),
                 dew_point_c |-> keep("dew_point_c"),
                 absolute_humidity_gm3 |-> keep("absolute_humidity_gm3")],
                Tail(ls))

RECURSIVE ParseLines(_, _)
ParseLines(out, ls) ==
    IF ls = <<>> THEN out ELSE ParseLines(ParseLine(out, Head(ls)), Tail(ls))

parse_measurements_cell(cell_text) ==
    ParseLines(EmptyMeasurements, NonEmptyStripped(SplitLines(cell_text)))

----------------------------------------------------------------------------
(* parse_measuring_points *)

\* A cell: its text, the text of a nested <a> (None when there is no <a>),
\* and its innerText attribute (None when the attribute is absent).
Cell(text, link, inner) == [text |-> text, link |-> link, innerText |-> inner]

\* A row: its class attribute (None when absent) and its <td> cells.
Row(class, cells) == [class |-> class, cells |-> cells]

RowDetailsMarker == <<"r", "o", "w", "-", "d", "e", "t", "a", "i", "l", "s">>

MinCells == 7

\* "row-details" in (tr.get_attribute("class") or "")
IsDetailRow(tr) == Contains(RowDetailsMarker, OrEmpty(tr.class))

\* variant: the cell count test is off by one (len(tds) <= 7)
IsShortRowOffByOne(tr) == Len(tr.cells) <= MinCells

\* len(tds) < 7
IsShortRow(tr) == Len(tr.cells) < MinCells

\* try: tds[3].find_element(By.TAG_NAME, "a").text.strip()
\* except NoSuchElementException: tds[3].text.strip() or None
GroupOf(td) ==
    IF td.link.some THEN Some(Strip(td.link.v)) ELSE OrNone(Strip(td.text))

\* (tds[4].get_attribute("innerText") or tds[4].text or "").strip()
CellText(td) ==
    Strip(IF td.innerText.some /\ td.innerText.v # <<>> THEN td.innerText.v ELSE td.text)

\* the dict appended for one data row
RecordOf(tr) ==
    LET tds == tr.cells
        parsed == parse_measurements_cell(CellText(tds[5]))
    IN [measuring_point |-> Strip(tds[3].text),
        group |-> GroupOf(tds[4]),
        temperature_c |-> parsed.temperature_c,
        humidity_pct |-> parsed.humidity_pct,
        dew_point_c |-> parsed.dew_point_c,
        absolute_humidity_gm3 |-> parsed.absolute_humidity_gm3,
        last_measurement |-> OrNone(Strip(tds[6].text)),
        internal_id |-> OrNone(Strip(tds[7].text))]

\* one iteration of the loop over the rows
ExtractRow(rows, tr) ==
    IF IsDetailRow(tr) THEN rows
    ELSE IF IsShortRow(tr) THEN rows
    ELSE Append(rows, RecordOf(tr))

RECURSIVE ExtractRows(_, _)
ExtractRows(rows, trs) ==
    IF trs = <<>> THEN rows ELSE ExtractRows(ExtractRow(rows, Head(trs)), Tail(trs))

parse_measuring_points(trs) == ExtractRows(<<>>, trs)

----------------------------------------------------------------------------
(* Pages the portal can show *)

NoCell == Cell(<<>>, None, None)

MeasTempRh == <<"2", "1", ".", "5", " ", "°", "C", "\n", "4", "5", " ", "%", "r", "H">>
MeasDewAbs == <<"9", ".", "8", " ", "°", "C", " ", "T", "d", "\n",
                "8", ".", "2", " ", "g", "/", "m", "³">>
MeasNone == <<"n", "/", "a", "\n", "-", "-">>

\* a data row: link in the group cell, innerText present on the measurement cell
RowA ==
    Row(None,
        <<NoCell, NoCell, Cell(<<"A">>, None, None), Cell(<<"x">>, Some(<<"G">>), None),
          Cell(<<>>, None, Some(MeasTempRh)), Cell(<<"t">>, None, None),
          Cell(<<"1">>, None, None)>>)

\* a data row with padded texts, no link, 8 cells, class "odd"
RowB ==
    Row(Some(<<"o", "d", "d">>),
        <<NoCell, NoCell, Cell(<<" ", "B", " ">>, None, None),
          Cell(<<" ", "H">>, None, None), Cell(MeasDewAbs, None, Some(<<>>)),
          Cell(<<" ">>, None, None), Cell(<<"2", " ">>, None, None), NoCell>>)

\* a data row whose cells are all empty, with an empty link, class ""
RowBlank ==
    Row(Some(<<>>),
        <<NoCell, NoCell, NoCell, Cell(<<>>, Some(<<>>), None),
          Cell(MeasNone, None, None), NoCell, NoCell>>)

\* an expansion row with the cells of a data row
RowDetail == Row(Some(RowDetailsMarker), RowA.cells)

\* an expansion row: marker among other classes, one cell
RowDetailOne ==
    Row(Some(<<"o", "d", "d", " ">> \o RowDetailsMarker \o <<" ", "x">>),
        <<Cell(<<"A">>, None, None)>>)

\* 6 cells
RowShort == Row(None, SubSeq(RowA.cells, 1, 6))

\* a header row: no <td> at all
RowHeader == Row(Some(<<"h">>), <<>>)

\* class "row-detail": not the marker
RowNearMarker ==
    Row(Some(SubSeq(RowDetailsMarker, 1, 10)),
        <<NoCell, NoCell, Cell(<<"C">>, None, None), Cell(<<"G">>, None, None),
          Cell(<<"-", "3", " ", "°", "c">>, None, None), NoCell,
          Cell(<<"3">>, None, None)>>)

RowKinds ==
    {RowA, RowB, RowBlank, RowDetail, RowDetailOne, RowShort, RowHeader, RowNearMarker}

RECURSIVE SeqsUpTo(_, _)
SeqsUpTo(S, n) ==
    IF n = 0 THEN {<<>>}
    ELSE LET shorter == SeqsUpTo(S, n - 1)
         IN shorter \cup {Append(q, x) : q \in shorter, x \in S}

\* tables handed to the extractor on its own
Tables == SeqsUpTo(RowKinds, MaxRows)

\* tables the data page shows during a cycle
Pages == {<<>>, <<RowA>>, <<RowB, RowDetail, RowA>>, <<RowShort, RowDetailOne>>}

----------------------------------------------------------------------------
(* Options, module-level globals *)

DefaultScanInterval == 300
MinInterval == 30

Max(a, b) == IF a >= b THEN a ELSE b

NoInt == [some |-> FALSE, v |-> 0]

\* values options.json can give; a missing file or a non-dict gives all absent
EmailOptions == {None, Some(<<" ">>), Some(<<"u", " ">>)}
PasswordOptions == {None, Some(<<>>), Some(<<"p">>)}
IntervalOptions == {NoInt} \cup {[some |-> TRUE, v |-> n] : n \in {-5, 0, 10, 45}}

\* str(_opts.get(key, "") or "").strip()
ResolveText(o) == Strip(OrEmpty(o))

\* int(_opts.get("scan_interval_seconds", 300) or 300)
ResolveInterval(o) == IF o.some /\ o.v # 0 THEN o.v ELSE DefaultScanInterval

\* stands for "no value" in a variable that holds a snapshot
NoValue == [status |-> "none"]

InitialSnapshot == [status |-> "init", count |-> 0, measuring_points |-> <<>>]

----------------------------------------------------------------------------
(* Exceptions *)

NoExc == [kind |-> "none", msg |-> <<>>]

\* Python's builtin and selenium's exception classes: the bases of each kind
Bases(kind) ==
    CASE kind = "TimeoutException" -> {"TimeoutException", "WebDriverException"}
      [] kind = "NoSuchElementException" ->
             {"NoSuchElementException", "WebDriverException"}
      [] OTHER -> {kind}

\* except (RuntimeError, WebDriverException, TimeoutException)
Caught == {"RuntimeError", "WebDriverException", "TimeoutException"}
IsCaught(e) == Bases(e.kind) \cap Caught # {}

\* str(e): selenium prefixes "Message: "
Str(e) ==
    IF "WebDriverException" \in Bases(e.kind) THEN <<"Message:">> \o e.msg ELSE e.msg

\* raised by WebDriverWait.until on timeout, with an empty message
TimeoutExc == [kind |-> "TimeoutException", msg |-> <<>>]
\* a session/browser failure reported by the driver
DriverExc == [kind |-> "WebDriverException", msg |-> <<"session", "failed">>]
\* an element that is not there (outside find_first)
NoElementExc == [kind |-> "NoSuchElementException", msg |-> <<"no", "such", "element">>]
\* an exception of none of the three classes, e.g. a connection error of the HTTP client
OtherExc == [kind |-> "ConnectionError", msg |-> <<"connection", "refused">>]
\* raise RuntimeError("Could not locate email/password inputs")
InputsExc ==
    [kind |-> "RuntimeError",
     msg |-> <<"Could", "not", "locate", "email/password", "inputs">>]

----------------------------------------------------------------------------
(* Snapshots built by scrape_once *)

MissingMessage == <<"Missing", "EMAIL", "or", "PASSWORD", "add-on", "options">>

MissingSnapshot ==
    [status |-> "error", error |-> MissingMessage, count |-> 0,
     measuring_points |-> <<>>]

\* variant: the count of the ok dict is the count published before
OkSnapshotStaleCount(rows) ==
    [status |-> "ok", count |-> latest.count, measuring_points |-> rows]

OkSnapshot(rows) ==
    [status |-> "ok", count |-> Len(rows), measuring_points |-> rows]

\* variant: the error dict keeps the rows published before
ErrorSnapshotKeepsRows(e) ==
    [status |-> "error", error |-> Str(e), count |-> 0,
     measuring_points |-> latest.measuring_points]

ErrorSnapshot(e) ==
    [status |-> "error", error |-> Str(e), count |-> 0, measuring_points |-> <<>>]

----------------------------------------------------------------------------
(* find_first and the login page *)

EmailSelectors ==
    <<"input[type='email']", "input[name='email']", "input[name='username']",
      "input[type='text']">>
PwdSelectors == <<"input[type='password']", "//input[@type='password']">>
SubmitSelectors ==
    <<"button[type='submit']", "input[type='submit']", "//button[contains(.,'Login')]">>

\* the first selector of the list that matches in page d, "None" when none does
find_first(d, selectors) ==
    IF \E i \in 1..Len(selectors) : selectors[i] \in d
    THEN selectors[CHOOSE i \in 1..Len(selectors) :
                       selectors[i] \in d /\ \A j \in 1..(i - 1) : selectors[j] \notin d]
    ELSE "None"

PwdPresent == {"input[type='password']", "//input[@type='password']"}

\* what the login URL can show
LoginPages ==
    {{},
     {"input[type='email']"},
     PwdPresent,
     {"input[type='email']", "input[type='text']", "button[type='submit']"} \cup PwdPresent,
     {"input[name='username']", "input[type='text']"} \cup PwdPresent,
     {"input[type='text']", "input[type='submit']", "//button[contains(.,'Login')]"}
         \cup PwdPresent}

----------------------------------------------------------------------------
(* Initial state: the module has been imported, no thread has run *)

Readers == 1..NumReaders

Free == [who |-> "nobody", id |-> 0]
SchedHolder == [who |-> "sched", id |-> 0]
ReaderHolder(r) == [who |-> "reader", id |-> r]

Init ==
    /\ opts \in [email : EmailOptions, password : PasswordOptions,
                 scan_interval_seconds : IntervalOptions]
    /\ EMAIL = ResolveText(opts.email)
    /\ PASSWORD = ResolveText(opts.password)
    /\ SCAN_INTERVAL = ResolveInterval(opts.scan_interval_seconds)
    /\ latest = InitialSnapshot
    /\ lock = Free
    /\ pc = "loop"
    /\ cycle = 0
    /\ driver = 0
    /\ serviceUp = FALSE
    /\ sessions = {}
    /\ dom = {}
    /\ ret = NoValue
    /\ exc = NoExc
    /\ data = NoValue
    /\ trace = <<>>
    /\ results = <<>>
    /\ writes = 0
    /\ slept = <<>>
    /\ rpc = [r \in Readers |-> "idle"]
    /\ resp = [r \in Readers |-> NoValue]
    /\ uTable = <<>>
    /\ uOut = <<>>
    /\ uPc = "off"
    /\ pLines = <<>>
    /\ pText = <<>>
    /\ pOut = EmptyMeasurements
    /\ pPc = "off"

readerVars == <<rpc, resp>>

----------------------------------------------------------------------------
(* scrape_once *)

\* variant: the except clause returns without the finally block running
RaiseWithoutFinally(e) ==
    /\ ret' = IF IsCaught(e) THEN ErrorSnapshot(e) ELSE NoValue
    /\ exc' = IF IsCaught(e) THEN NoExc ELSE e
    /\ pc' = IF IsCaught(e) THEN "acquire" ELSE "dead"

\* an exception raised inside the try block reaches the except clause, which
\* turns it into the return value when it is of a caught class; then finally runs
Raise(e) ==
    /\ ret' = IF IsCaught(e) THEN ErrorSnapshot(e) ELSE NoValue
    /\ exc' = IF IsCaught(e) THEN NoExc ELSE e
    /\ pc' = "finally"

\* variant: a step that raised is tried again
StepRetries(from, op, to, errors) ==
    /\ pc = from
    /\ trace' = Append(trace, op)
    /\ \/ pc' = to /\ UNCHANGED <<ret, exc>>
       \/ errors # {} /\ pc' = from /\ UNCHANGED <<ret, exc>>

\* a step of the try block that only moves on or raises
Step(from, op, to, errors) ==
    /\ pc = from
    /\ trace' = Append(trace, op)
    /\ \/ pc' = to /\ UNCHANGED <<ret, exc>>
       \/ \E e \in errors : Raise(e)

\* variant: scrape_once without the credentials check
StartCycleNoCheck ==
    /\ pc = "loop"
    /\ cycle < MaxCycles
    /\ cycle' = cycle + 1
    /\ trace' = <<>>
    /\ ret' = NoValue
    /\ exc' = NoExc
    /\ driver' = 0
    /\ pc' = "svc_start"
    /\ UNCHANGED <<data, results, serviceUp, sessions, dom, writes, slept, latest, lock>>
    /\ UNCHANGED <<cfgVars, readerVars, unitVars>>

\* background_loop calls scrape_once; the credentials check
StartCycle ==
    /\ pc = "loop"
    /\ cycle < MaxCycles
    /\ cycle' = cycle + 1
    /\ trace' = <<>>
    /\ ret' = NoValue
    /\ exc' = NoExc
    /\ IF EMAIL = <<>> \/ PASSWORD = <<>>
       THEN /\ data' = MissingSnapshot
            /\ results' = Append(results, MissingSnapshot)
            /\ pc' = "acquire"
            /\ UNCHANGED driver
       ELSE /\ driver' = 0
            /\ pc' = "svc_start"
            /\ UNCHANGED <<data, results>>
    /\ UNCHANGED <<serviceUp, sessions, dom, writes, slept, latest, lock>>
    /\ UNCHANGED <<cfgVars, readerVars, unitVars>>

\* open_browser: service.start()
ServiceStart ==
    /\ pc = "svc_start"
    /\ trace' = Append(trace, "service_start")
    /\ \/ serviceUp' = TRUE /\ pc' = "chrome" /\ UNCHANGED <<ret, exc>>
       \/ \E e \in {DriverExc, OtherExc} : Raise(e) /\ UNCHANGED serviceUp
    /\ UNCHANGED <<cycle, driver, sessions, dom, data, results, writes, slept,
                   latest, lock>>
    /\ UNCHANGED <<cfgVars, readerVars, unitVars>>

\* open_browser: webdriver.Chrome(...); on failure the service is stopped
ChromeStart ==
    /\ pc = "chrome"
    /\ trace' = Append(trace, "open")
    /\ \/ /\ driver' = cycle
          /\ sessions' = sessions \cup {cycle}
          /\ pc' = "login_get"
          /\ UNCHANGED <<serviceUp, ret, exc>>
       \/ /\ \E e \in {DriverExc, OtherExc} : Raise(e)
          /\ serviceUp' = FALSE
          /\ UNCHANGED <<driver, sessions>>
    /\ UNCHANGED <<cycle, dom, data, results, writes, slept, latest, lock>>
    /\ UNCHANGED <<cfgVars, readerVars, unitVars>>

\* login: driver.get(LOGIN_URL)
LoginGet ==
    /\ Step("login_get", "get_login", "login_wait", {DriverExc, TimeoutExc, OtherExc})
    /\ UNCHANGED <<cycle, driver, serviceUp, sessions, dom, data, results, writes,
                   slept, latest, lock>>
    /\ UNCHANGED <<cfgVars, readerVars, unitVars>>

\* variant: the wait ends when the email or the password input is present
LoginWaitFormEitherField ==
    /\ pc = "login_wait"
    /\ trace' = Append(trace, "wait_form")
    /\ \/ \E d \in LoginPages :
             /\ dom' = d
             /\ IF find_first(d, EmailSelectors) # "None"
                   \/ find_first(d, PwdSelectors) # "None"
                THEN pc' = "login_find" /\ UNCHANGED <<ret, exc>>
                ELSE Raise(TimeoutExc)
       \/ \E e \in {DriverExc, OtherExc} : Raise(e) /\ UNCHANGED dom
    /\ UNCHANGED <<cycle, driver, serviceUp, sessions, data, results, writes,
                   slept, latest, lock>>
    /\ UNCHANGED <<cfgVars, readerVars, unitVars>>

\* login: wait.until(find_first(d, email selectors) is not None)
LoginWaitForm ==
    /\ pc = "login_wait"
    /\ trace' = Append(trace, "wait_form")
    /\ \/ \E d \in LoginPages :
             /\ dom' = d
             /\ IF find_first(d, EmailSelectors) # "None"
                THEN pc' = "login_find" /\ UNCHANGED <<ret, exc>>
                ELSE Raise(TimeoutExc)
       \/ \E e \in {DriverExc, OtherExc} : Raise(e) /\ UNCHANGED dom
    /\ UNCHANGED <<cycle, driver, serviceUp, sessions, data, results, writes,
                   slept, latest, lock>>
    /\ UNCHANGED <<cfgVars, readerVars, unitVars>>

\* variant: only the email input is required
LoginFindEmailOnly ==
    /\ pc = "login_find"
    /\ trace' = trace \o <<"find_email", "find_pwd">>
    /\ \/ \E d \in LoginPages :
             /\ dom' = d
             /\ IF find_first(d, EmailSelectors) = "None"
                THEN Raise(InputsExc)
                ELSE pc' = "login_type_email" /\ UNCHANGED <<ret, exc>>
       \/ \E e \in {DriverExc, OtherExc} : Raise(e) /\ UNCHANGED dom
    /\ UNCHANGED <<cycle, driver, serviceUp, sessions, data, results, writes,
                   slept, latest, lock>>
    /\ UNCHANGED <<cfgVars, readerVars, unitVars>>

\* login: the two find_first calls and the check that both inputs were found
LoginFind ==
    /\ pc = "login_find"
    /\ trace' = trace \o <<"find_email", "find_pwd">>
    /\ \/ \E d \in LoginPages :
             /\ dom' = d
             /\ IF find_first(d, EmailSelectors) = "None"
                   \/ find_first(d, PwdSelectors) = "None"
                THEN Raise(InputsExc)
                ELSE pc' = "login_type_email" /\ UNCHANGED <<ret, exc>>
       \/ \E e \in {DriverExc, OtherExc} : Raise(e) /\ UNCHANGED dom
    /\ UNCHANGED <<cycle, driver, serviceUp, sessions, data, results, writes,
                   slept, latest, lock>>
    /\ UNCHANGED <<cfgVars, readerVars, unitVars>>

\* login: email_input.clear(); email_input.send_keys(email)
LoginTypeEmail ==
    /\ Step("login_type_email", "type_email", "login_type_pwd", {DriverExc, OtherExc})
    /\ UNCHANGED <<cycle, driver, serviceUp, sessions, dom, data, results, writes,
                   slept, latest, lock>>
    /\ UNCHANGED <<cfgVars, readerVars, unitVars>>

\* login: pwd_input.clear(); pwd_input.send_keys(password)
LoginTypePassword ==
    /\ Step("login_type_pwd", "type_pwd", "login_submit", {DriverExc, OtherExc})
    /\ UNCHANGED <<cycle, driver, serviceUp, sessions, dom, data, results, writes,
                   slept, latest, lock>>
    /\ UNCHANGED <<cfgVars, readerVars, unitVars>>

\* login: submit.click() when a submit control is found, else pwd_input.send_keys("\n")
LoginSubmit ==
    /\ Step("login_submit",
            IF find_first(dom, SubmitSelectors) # "None" THEN "click_submit"
            ELSE "enter_in_pwd",
            "login_url", {DriverExc, OtherExc})
    /\ UNCHANGED <<cycle, driver, serviceUp, sessions, dom, data, results, writes,
                   slept, latest, lock>>
    /\ UNCHANGED <<cfgVars, readerVars, unitVars>>

\* variant: the TimeoutException of the URL wait is not passed over
LoginUrlWaitRaises ==
    /\ \/ Step("login_url", "url_changed", "nav", {DriverExc, OtherExc})
       \/ /\ pc = "login_url"
          /\ trace' = Append(trace, "url_timeout")
          /\ Raise(TimeoutExc)
    /\ UNCHANGED <<cycle, driver, serviceUp, sessions, dom, data, results, writes,
                   slept, latest, lock>>
    /\ UNCHANGED <<cfgVars, readerVars, unitVars>>

\* login: wait.until(current_url != LOGIN_URL), a TimeoutException is passed over
LoginUrlWait ==
    /\ \/ Step("login_url", "url_changed", "nav", {DriverExc, OtherExc})
       \/ Step("login_url", "url_timeout", "nav", {})
    /\ UNCHANGED <<cycle, driver, serviceUp, sessions, dom, data, results, writes,
                   slept, latest, lock>>
    /\ UNCHANGED <<cfgVars, readerVars, unitVars>>

\* driver.get(MEASURING_POINTS_URL)
Navigate ==
    /\ Step("nav", "get_data", "wait_table", {DriverExc, TimeoutExc, OtherExc})
    /\ dom' = {}
    /\ UNCHANGED <<cycle, driver, serviceUp, sessions, data, results, writes,
                   slept, latest, lock>>
    /\ UNCHANGED <<cfgVars, readerVars, unitVars>>

\* WebDriverWait(driver, 30).until(presence_of_element_located(tbody))
WaitTable ==
    /\ Step("wait_table", "wait_table", "settle", {TimeoutExc, DriverExc, OtherExc})
    /\ UNCHANGED <<cycle, driver, serviceUp, sessions, dom, data, results, writes,
                   slept, latest, lock>>
    /\ UNCHANGED <<cfgVars, readerVars, unitVars>>

\* time.sleep(1.0)
Settle ==
    /\ Step("settle", "settle", "extract", {})
    /\ UNCHANGED <<cycle, driver, serviceUp, sessions, dom, data, results, writes,
                   slept, latest, lock>>
    /\ UNCHANGED <<cfgVars, readerVars, unitVars>>

\* rows = parse_measuring_points(driver); return the "ok" dict
Extract ==
    /\ pc = "extract"
    /\ trace' = Append(trace, "extract")
    /\ \/ \E t \in Pages :
             /\ ret' = OkSnapshot(parse_measuring_points(t))
             /\ exc' = NoExc
             /\ pc' = "finally"
       \/ \E e \in {NoElementExc, DriverExc, OtherExc} : Raise(e)
    /\ UNCHANGED <<cycle, driver, serviceUp, sessions, dom, data, results, writes,
                   slept, latest, lock>>
    /\ UNCHANGED <<cfgVars, readerVars, unitVars>>

\* variant: the finally block does not quit the driver
FinallyNoQuit ==
    /\ pc = "finally"
    /\ IF exc = NoExc
       THEN /\ data' = ret
            /\ results' = Append(results, ret)
            /\ pc' = "acquire"
       ELSE /\ pc' = "dead"
            /\ UNCHANGED <<data, results>>
    /\ UNCHANGED <<trace, sessions, serviceUp>>
    /\ UNCHANGED <<cycle, driver, dom, ret, exc, writes, slept, latest, lock>>
    /\ UNCHANGED <<cfgVars, readerVars, unitVars>>

\* finally: driver.quit() when driver is set (an exception of quit is passed
\* over; the browser and its page are gone); then scrape_once returns to background_loop, or the exception that
\* was not caught leaves scrape_once and background_loop, ending the thread
Finally ==
    /\ pc = "finally"
    /\ IF driver # 0
       THEN /\ trace' = Append(trace, "quit")
            /\ sessions' = sessions \ {driver}
            /\ serviceUp' = FALSE
       ELSE UNCHANGED <<trace, sessions, serviceUp>>
    /\ IF exc = NoExc
       THEN /\ data' = ret
            /\ results' = Append(results, ret)
            /\ pc' = "acquire"
       ELSE /\ pc' = "dead"
            /\ UNCHANGED <<data, results>>
    /\ dom' = {}
    /\ UNCHANGED <<cycle, driver, ret, exc, writes, slept, latest, lock>>
    /\ UNCHANGED <<cfgVars, readerVars, unitVars>>

----------------------------------------------------------------------------
(* background_loop after scrape_once returned *)

\* with _latest_lock: (enter)
AcquireLock ==
    /\ pc = "acquire"
    /\ lock = Free
    /\ lock' = SchedHolder
    /\ pc' = "write"
    /\ UNCHANGED <<cycle, driver, serviceUp, sessions, dom, ret, exc, data, trace,
                   results, writes, slept, latest>>
    /\ UNCHANGED <<cfgVars, readerVars, unitVars>>

\* variant: the dict _latest is updated in place, status and count first
WriteLatestInPlace ==
    /\ pc = "write"
    /\ latest' = [k \in DOMAIN latest |->
                     IF k \in {"status", "count"} THEN data[k] ELSE latest[k]]
    /\ writes' = writes + 1
    /\ pc' = "release"
    /\ UNCHANGED <<cycle, driver, serviceUp, sessions, dom, ret, exc, data, trace,
                   results, slept, lock>>
    /\ UNCHANGED <<cfgVars, readerVars, unitVars>>

\* _latest = data
WriteLatest ==
    /\ pc = "write"
    /\ latest' = data
    /\ writes' = writes + 1
    /\ pc' = "release"
    /\ UNCHANGED <<cycle, driver, serviceUp, sessions, dom, ret, exc, data, trace,
                   results, slept, lock>>
    /\ UNCHANGED <<cfgVars, readerVars, unitVars>>

\* variant: the sleep is inside the with block, the lock is kept
ReleaseLockLate ==
    /\ pc = "release"
    /\ pc' = "sleep"
    /\ UNCHANGED <<cycle, driver, serviceUp, sessions, dom, ret, exc, data, trace,
                   results, writes, slept, latest, lock>>
    /\ UNCHANGED <<cfgVars, readerVars, unitVars>>

\* with _latest_lock: (exit)
ReleaseLock ==
    /\ pc = "release"
    /\ lock' = Free
    /\ pc' = "sleep"
    /\ UNCHANGED <<cycle, driver, serviceUp, sessions, dom, ret, exc, data, trace,
                   results, writes, slept, latest>>
    /\ UNCHANGED <<cfgVars, readerVars, unitVars>>

\* variant: time.sleep(SCAN_INTERVAL), no floor
SleepNoFloor ==
    /\ pc = "sleep"
    /\ slept' = Append(slept, SCAN_INTERVAL)
    /\ pc' = "sleeping"
    /\ UNCHANGED <<cycle, driver, serviceUp, sessions, dom, ret, exc, data, trace,
                   results, writes, latest, lock>>
    /\ UNCHANGED <<cfgVars, readerVars, unitVars>>

\* time.sleep(max(30, SCAN_INTERVAL)) is entered
Sleep ==
    /\ pc = "sleep"
    /\ slept' = Append(slept, Max(MinInterval, SCAN_INTERVAL))
    /\ pc' = "sleeping"
    /\ UNCHANGED <<cycle, driver, serviceUp, sessions, dom, ret, exc, data, trace,
                   results, writes, latest, lock>>
    /\ UNCHANGED <<cfgVars, readerVars, unitVars>>

\* time.sleep returns; back to the top of while True
Wake ==
    /\ pc = "sleeping"
    /\ pc' = "loop"
    /\ UNCHANGED <<cycle, driver, serviceUp, sessions, dom, ret, exc, data, trace,
                   results, writes, slept, latest, lock>>
    /\ UNCHANGED <<cfgVars, readerVars, unitVars>>

----------------------------------------------------------------------------
(* GET /data *)

\* jsonify: every key of the dict with its value
jsonify(d) == [k \in DOMAIN d |-> d[k]]

\* with _latest_lock: (enter)
DataAcquire(r) ==
    /\ rpc[r] = "idle"
    /\ lock = Free
    /\ lock' = ReaderHolder(r)
    /\ rpc' = [rpc EXCEPT ![r] = "locked"]
    /\ UNCHANGED <<resp, latest, schedVars, cfgVars, unitVars>>

\* return jsonify(_latest)
DataRead(r) ==
    /\ rpc[r] = "locked"
    /\ resp' = [resp EXCEPT ![r] = jsonify(latest)]
    /\ rpc' = [rpc EXCEPT ![r] = "returning"]
    /\ UNCHANGED <<latest, lock, schedVars, cfgVars, unitVars>>

\* with _latest_lock: (exit); the response goes out
DataRelease(r) ==
    /\ rpc[r] = "returning"
    /\ lock' = Free
    /\ rpc' = [rpc EXCEPT ![r] = "idle"]
    /\ resp' = [resp EXCEPT ![r] = NoValue]
    /\ UNCHANGED <<latest, schedVars, cfgVars, unitVars>>

----------------------------------------------------------------------------
(* The running program: the scheduler thread and the /data handlers *)

Next ==
    \/ StartCycle
    \/ ServiceStart
    \/ ChromeStart
    \/ LoginGet
    \/ LoginWaitForm
    \/ LoginFind
    \/ LoginTypeEmail
    \/ LoginTypePassword
    \/ LoginSubmit
    \/ LoginUrlWait
    \/ Navigate
    \/ WaitTable
    \/ Settle
    \/ Extract
    \/ Finally
    \/ AcquireLock
    \/ WriteLatest
    \/ ReleaseLock
    \/ Sleep
    \/ Wake
    \/ \E r \in Readers : DataAcquire(r)
    \/ \E r \in Readers : DataRead(r)
    \/ \E r \in Readers : DataRelease(r)

Spec == Init /\ [][Next]_vars

----------------------------------------------------------------------------
(* parse_measuring_points applied to a table on its own *)

InitExtract ==
    /\ opts = [email |-> None, password |-> None, scan_interval_seconds |-> NoInt]
    /\ EMAIL = ResolveText(opts.email)
    /\ PASSWORD = ResolveText(opts.password)
    /\ SCAN_INTERVAL = ResolveInterval(opts.scan_interval_seconds)
    /\ latest = InitialSnapshot
    /\ lock = Free
    /\ pc = "loop"
    /\ cycle = 0
    /\ driver = 0
    /\ serviceUp = FALSE
    /\ sessions = {}
    /\ dom = {}
    /\ ret = NoValue
    /\ exc = NoExc
    /\ data = NoValue
    /\ trace = <<>>
    /\ results = <<>>
    /\ writes = 0
    /\ slept = <<>>
    /\ rpc = [r \in Readers |-> "idle"]
    /\ resp = [r \in Readers |-> NoValue]
    /\ uTable \in Tables
    /\ uOut = <<>>
    /\ uPc = "ready"
    /\ pLines = <<>>
    /\ pText = <<>>
    /\ pOut = EmptyMeasurements
    /\ pPc = "off"

\* results = parse_measuring_points(table)
CallExtract ==
    /\ uPc = "ready"
    /\ uOut' = parse_measuring_points(uTable)
    /\ uPc' = "done"
    /\ UNCHANGED <<uTable, pLines, pText, pOut, pPc>>
    /\ UNCHANGED <<latest, lock, schedVars, cfgVars, readerVars>>

NextExtract == CallExtract

SpecExtract == InitExtract /\ [][NextExtract]_vars

----------------------------------------------------------------------------
(* parse_measurements_cell applied to a text on its own *)

LineTemp == <<"2", "1", ".", "5", " ", "°", "C">>
LineTemp2 == <<"2", "2", " ", "°", "C">>
LineRh == <<"4", "5", " ", "%", "r", "H">>
LineDew == <<"9", ".", "8", " ", "°", "C", " ", "T", "d">>
LineAbsSup == <<"8", ".", "2", " ", "g", "/", "m", "³">>
LineAbs3 == <<"7", " ", "G", "/", "M", "3">>
LineNa == <<"n", "/", "a">>
LineEmpty == <<>>
LineBlank == <<" ", "\t">>
LineRhTemp == <<"5", " ", "%", "r", "H", " ", "°", "C">>
LineNoPrefix == <<"x", " ", "5", " ", "°", "C">>
LineNoUnit == <<"+", "1", "2">>
LinePadded ==
    <<" ", "-", "3", ".", "5", "0", " ", "g", "/", "m", "3", " ", "°", "c", " ", "t", "d", " ">>

LineKinds ==
    {LineTemp, LineTemp2, LineRh, LineDew, LineAbsSup, LineAbs3, LineNa, LineEmpty,
     LineBlank, LineRhTemp, LineNoPrefix, LineNoUnit, LinePadded}

MaxLines == 3

\* "\n".join(lines)
RECURSIVE JoinLines(_)
JoinLines(ls) ==
    IF ls = <<>> THEN <<>>
    ELSE IF Len(ls) = 1 THEN ls[1]
    ELSE ls[1] \o <<"\n">> \o JoinLines(Tail(ls))

InitParse ==
    /\ opts = [email |-> None, password |-> None, scan_interval_seconds |-> NoInt]
    /\ EMAIL = ResolveText(opts.email)
    /\ PASSWORD = ResolveText(opts.password)
    /\ SCAN_INTERVAL = ResolveInterval(opts.scan_interval_seconds)
    /\ latest = InitialSnapshot
    /\ lock = Free
    /\ pc = "loop"
    /\ cycle = 0
    /\ driver = 0
    /\ serviceUp = FALSE
    /\ sessions = {}
    /\ dom = {}
    /\ ret = NoValue
    /\ exc = NoExc
    /\ data = NoValue
    /\ trace = <<>>
    /\ results = <<>>
    /\ writes = 0
    /\ slept = <<>>
    /\ rpc = [r \in Readers |-> "idle"]
    /\ resp = [r \in Readers |-> NoValue]
    /\ uTable = <<>>
    /\ uOut = <<>>
    /\ uPc = "off"
    /\ pLines \in SeqsUpTo(LineKinds, MaxLines)
    /\ pText = JoinLines(pLines)
    /\ pOut = EmptyMeasurements
    /\ pPc = "ready"

\* out = parse_measurements_cell(cell_text)
CallParse ==
    /\ pPc = "ready"
    /\ pOut' = parse_measurements_cell(pText)
    /\ pPc' = "done"
    /\ UNCHANGED <<pLines, pText, uTable, uOut, uPc>>
    /\ UNCHANGED <<latest, lock, schedVars, cfgVars, readerVars>>

NextParse == CallParse

SpecParse == InitParse /\ [][NextParse]_vars

----------------------------------------------------------------------------
(* Properties *)

\* the scheduler thread is between the return of scrape_once and the next call,
\* or has ended
CycleEnded == pc \in {"acquire", "write", "release", "sleep", "sleeping", "loop", "dead"}

HasWord(msg, w) == \E i \in 1..Len(msg) : msg[i] = w

\* C1: after every publish by the scheduler the published snapshot satisfies:
\* status "ok" implies there is no error and count = len(measuring_points);
\* status "error" implies measuring_points is empty.
C1_PublishedSnapshotInvariant ==
    writes > 0 =>
        /\ latest.status = "ok" =>
               /\ "error" \notin DOMAIN latest
               /\ latest.count = Len(latest.measuring_points)
        /\ latest.status = "error" => latest.measuring_points = <<>>

\* C1 witness: a failed cycle was published, then a successful one with two rows
C1_Witness ==
    /\ writes = 2
    /\ results[1].status = "error"
    /\ latest.status = "ok"
    /\ latest.count = 2

\* C2: at most one browser session is open at any time, and when a cycle
\* starts opening its session no session and no driver service of an earlier
\* cycle is left open.
C2_NoOverlappingSessions ==
    /\ Cardinality(sessions) <= 1
    /\ pc \in {"svc_start", "chrome"} => sessions = {}
    /\ pc = "svc_start" => ~serviceUp

\* C2 witness: the second cycle has opened its session after the first cycle,
\* which had a session of its own, returned
C2_Witness ==
    /\ cycle = 2
    /\ pc = "login_get"
    /\ sessions = {2}
    /\ results[1].status = "ok"

\* C3: when a cycle has ended, whichever way, no session is open, and if the
\* cycle opened a session the last session operation of the cycle was quit.
C3_SessionClosedOnEveryExit ==
    CycleEnded =>
        /\ sessions = {}
        /\ driver # 0 => trace # <<>> /\ trace[Len(trace)] = "quit"

\* C3 witness: extraction raised an exception of no caught class, the thread
\* has ended, and quit was the last operation on the session
C3_Witness ==
    /\ pc = "dead"
    /\ exc = OtherExc
    /\ driver # 0
    /\ HasWord(trace, "extract")
    /\ trace[Len(trace)] = "quit"

\* C4: with an empty email or password every scrape_once call returns at once
\* the error snapshot whose message contains "Missing", with count 0 and no
\* rows, and no operation of the session capability is invoked.
C4_MissingCredentialsShortCircuit ==
    (EMAIL = <<>> \/ PASSWORD = <<>>) =>
        /\ trace = <<>>
        /\ sessions = {}
        /\ ~serviceUp
        /\ driver = 0
        /\ Len(results) = cycle
        /\ \A k \in 1..Len(results) :
               /\ results[k].status = "error"
               /\ HasWord(results[k].error, "Missing")
               /\ results[k].count = 0
               /\ results[k].measuring_points = <<>>

\* C4 witness: the email option is blank, the password is set, and the
\* snapshot of the first cycle has been published
C4_Witness ==
    /\ opts.email = Some(<<" ">>)
    /\ opts.password = Some(<<"p">>)
    /\ writes = 1
    /\ latest = results[1]
    /\ latest.status = "error"

\* C5 (as claimed): the background loop never stops, whatever way a cycle ended.
C5_SchedulerNeverStops == pc # "dead"

\* C6: the body a /data handler returns is the initial snapshot or the whole
\* return value of one finished cycle.
C6_ReaderSeesWholeSnapshot ==
    \A r \in Readers :
        rpc[r] = "returning" =>
            \/ resp[r] = InitialSnapshot
            \/ \E k \in 1..Len(results) : resp[r] = results[k]

\* C6 witness: a handler returns the two-row snapshot of the first cycle while
\* the second cycle is extracting
C6_Witness ==
    \E r \in Readers :
        /\ rpc[r] = "returning"
        /\ resp[r].status = "ok"
        /\ resp[r].count = 2
        /\ cycle = 2
        /\ pc = "extract"

\* C7 (as claimed): no failure of a cycle step escapes scrape_once as an
\* exception; every failure is returned as an "error" snapshot with an error
\* string and no rows.
C7_EveryFailureBecomesErrorSnapshot ==
    /\ exc = NoExc
    /\ \A k \in 1..Len(results) :
           results[k].status = "error" =>
               /\ "error" \in DOMAIN results[k]
               /\ results[k].measuring_points = <<>>

\* C8 (as claimed): every iteration of the scheduler that has ended wrote the
\* snapshot exactly once.
C8_OneWritePerIteration ==
    pc \in {"sleep", "sleeping", "loop", "dead"} => writes = cycle

\* C9 (as claimed): for every configured interval the delay of every sleep is
\* max(30, configured_interval_seconds).
C9_DelayIsMaxOfConfigured ==
    opts.scan_interval_seconds.some =>
        \A k \in 1..Len(slept) : slept[k] = Max(30, opts.scan_interval_seconds.v)

\* C9 (amended): for every configured integer interval other than zero the delay of
\* every sleep is max(30, configured_interval_seconds); for a configured zero
\* and for no configured value it is 300; the delay is the same after a
\* successful and after a failed cycle.
C9_DelayIsMaxOfResolved ==
    \A k \in 1..Len(slept) :
        /\ opts.scan_interval_seconds.some /\ opts.scan_interval_seconds.v # 0 =>
               slept[k] = Max(30, opts.scan_interval_seconds.v)
        /\ ~opts.scan_interval_seconds.some \/ opts.scan_interval_seconds.v = 0 =>
               slept[k] = 300
        /\ slept[k] = slept[1]

\* C9 witness: interval 10 is configured; the scheduler slept 30 after a
\* successful cycle and 30 after a failed one
C9_Witness ==
    /\ opts.scan_interval_seconds = [some |-> TRUE, v |-> 10]
    /\ slept = <<30, 30>>
    /\ results[1].status = "ok"
    /\ results[2].status = "error"

\* C10: the output of the extractor is one record per row that has no
\* "row-details" marker in its class and has at least 7 cells, in the order of
\* the rows.
C10_OneRecordPerDataRowInOrder ==
    uPc = "done" =>
        LET valid == {i \in 1..Len(uTable) :
                         /\ ~Contains(RowDetailsMarker, OrEmpty(uTable[i].class))
                         /\ Len(uTable[i].cells) >= 7}
            rank(i) == Cardinality({j \in valid : j <= i})
        IN /\ Len(uOut) = Cardinality(valid)
           /\ \A i \in valid : uOut[rank(i)] = RecordOf(uTable[i])

\* C10 witness: a table of a detail row, two equal data rows and a short row
\* gave the two records
C10_Witness ==
    /\ uPc = "done"
    /\ uTable = <<RowDetail, RowA, RowShort, RowA>>
    /\ Len(uOut) = 2

\* indices of the rows of table t that are data rows
DataRowsOf(t) ==
    {i \in 1..Len(t) :
        /\ ~Contains(RowDetailsMarker, OrEmpty(t[i].class))
        /\ Len(t[i].cells) >= 7}

\* position in the output of the record of data row i
RankOf(t, i) == Cardinality({j \in DataRowsOf(t) : j <= i})

\* C11 (as claimed): the group of a record is the link's text when the group
\* cell has a link with text, the trimmed cell text when it has no link, and
\* null when the link text and the cell text are both empty, also when a link
\* is present with empty text.
C11_GroupLinkTextOrNull ==
    uPc = "done" =>
        \A i \in DataRowsOf(uTable) :
            LET td == uTable[i].cells[4]
                linkText == IF td.link.some THEN Strip(td.link.v) ELSE <<>>
                cellText == Strip(td.text)
                group == uOut[RankOf(uTable, i)].group
            IN /\ td.link.some /\ linkText # <<>> => group = Some(linkText)
               /\ ~td.link.some /\ cellText # <<>> => group = Some(cellText)
               /\ linkText = <<>> /\ cellText = <<>> => group = None

\* the unit markers found in a line, by the names of the fields they stand for
MarkersIn(ln) ==
    LET l == Lower(ln)
    IN {f \in {"dew_point_c"} : Contains(<<"°", "c", " ", "t", "d">>, l)}
       \cup {f \in {"humidity_pct"} : Contains(<<"%", "r", "h">>, l)}
       \cup {f \in {"absolute_humidity_gm3"} :
                Contains(<<"g", "/", "m", "³">>, l) \/ Contains(<<"g", "/", "m", "3">>, l)}
       \cup {f \in {"temperature_c"} : Contains(<<"°", "c">>, l)}

\* the field of highest precedence among ms, "none" when ms is empty
Chosen(ms) ==
    IF "dew_point_c" \in ms THEN "dew_point_c"
    ELSE IF "humidity_pct" \in ms THEN "humidity_pct"
    ELSE IF "absolute_humidity_gm3" \in ms THEN "absolute_humidity_gm3"
    ELSE IF "temperature_c" \in ms THEN "temperature_c"
    ELSE "none"

Fields == {"temperature_c", "humidity_pct", "dew_point_c", "absolute_humidity_gm3"}

NonBlank(ln) == Strip(ln) # <<>>

HasNumber(ln) == _extract_float(Strip(ln)).some

MaxOf(S) == CHOOSE x \in S : \A y \in S : y <= x

\* C12: each field of the result is the number of the last non-empty line
\* that has a numeric prefix and is classified to the field, and null when
\* there is no such line; other lines neither set nor clear a field.
C12_LastMatchingLineWins ==
    pPc = "done" =>
        LET ls == SelectSeq(pLines, NonBlank)
        IN \A f \in Fields :
               LET idx == {i \in 1..Len(ls) :
                              HasNumber(ls[i]) /\ Chosen(MarkersIn(ls[i])) = f}
               IN pOut[f] = IF idx = {} THEN None
                            ELSE _extract_float(Strip(ls[MaxOf(idx)]))

\* C12 witness: two temperature lines with a non-numeric line after them; the
\* second temperature is the result and the other fields are null
C12_Witness ==
    /\ pPc = "done"
    /\ pLines = <<LineTemp, LineTemp2, LineNa>>
    /\ pOut.temperature_c = Some([m |-> 22, e |-> 0])
    /\ ~pOut.humidity_pct.some

\* C13: a text with one line that has a numeric prefix sets exactly the field
\* of highest precedence among the markers of that line (dew point, relative
\* humidity, absolute humidity, temperature), and no field when the line has
\* no marker.
C13_OneFieldPerLineByPrecedence ==
    pPc = "done" =>
        LET nums == {i \in 1..Len(pLines) : HasNumber(pLines[i])}
        IN Cardinality(nums) = 1 =>
               LET ln == pLines[CHOOSE i \in nums : TRUE]
               IN \A f \in Fields : pOut[f].some <=> f = Chosen(MarkersIn(ln))

\* C13 witness: the line "-3.50 g/m3 °c td" set the dew point only
C13_Witness ==
    /\ pPc = "done"
    /\ pLines = <<LineNa, LinePadded>>
    /\ pOut.dew_point_c = Some([m |-> -35, e |-> 1])
    /\ ~pOut.temperature_c.some
    /\ ~pOut.absolute_humidity_gm3.some

\* place of a session operation in the order of scrape_once
StepRank(op) ==
    CASE op = "service_start" -> 1
      [] op = "open" -> 2
      [] op = "get_login" -> 3
      [] op = "wait_form" -> 4
      [] op = "find_email" -> 5
      [] op = "find_pwd" -> 6
      [] op = "type_email" -> 7
      [] op = "type_pwd" -> 8
      [] op \in {"click_submit", "enter_in_pwd"} -> 9
      [] op \in {"url_changed", "url_timeout"} -> 10
      [] op = "get_data" -> 11
      [] op = "wait_table" -> 12
      [] op = "settle" -> 13
      [] op = "extract" -> 14
      [] OTHER -> 0

\* scrape_once has returned to background_loop and data holds its result
Returned == cycle >= 1 /\ pc \in {"acquire", "write", "release", "sleep", "sleeping", "loop"}

\* C14: the operations of a cycle are a prefix of the order open, login, data
\* page, wait for the table, settle, extract, each once, followed by nothing
\* but the close of an opened session; extraction comes only after the wait
\* and the settle delay; a cycle that returned without extracting returned an
\* error snapshot with its message.
C14_StepsInOrderNoRetry ==
    /\ \A i \in 1..Len(trace) :
           IF trace[i] = "quit" THEN i = Len(trace) /\ i >= 3
           ELSE StepRank(trace[i]) = i
    /\ HasWord(trace, "extract") => HasWord(trace, "wait_table") /\ HasWord(trace, "settle")
    /\ Returned /\ ~HasWord(trace, "extract") =>
           /\ data.status = "error"
           /\ "error" \in DOMAIN data
           /\ data.error # <<>>

\* C14 witness: the wait for the table timed out; the session was closed right
\* after it and the cycle returned the error snapshot of the timeout
C14_Witness ==
    /\ pc = "acquire"
    /\ Len(trace) = 13
    /\ trace[12] = "wait_table"
    /\ trace[13] = "quit"
    /\ data = ErrorSnapshot(TimeoutExc)

\* C15: the scheduler holds the snapshot lock only around the assignment
\* of _latest, with no session or driver service open and not in its sleep; so
\* whenever the scheduler is elsewhere and no other handler holds the lock, a
\* /data handler that asks for the lock gets it.
C15_LockHeldOnlyForSwap ==
    /\ lock = SchedHolder => pc \in {"write", "release"}
    /\ lock = SchedHolder => sessions = {} /\ ~serviceUp
    /\ \A r \in Readers :
           (/\ pc \notin {"write", "release"}
            /\ \A q \in Readers : rpc[q] = "idle")
           => ENABLED DataAcquire(r)

\* C15 witness: a handler holds the lock while the scheduler, with its session
\* open, waits for the table
C15_Witness ==
    \E r \in Readers :
        /\ pc = "wait_table"
        /\ sessions # {}
        /\ rpc[r] = "locked"
        /\ lock = ReaderHolder(r)

\* C16: when the wait for the URL to change times out, login does not fail:
\* the next position of the cycle is the navigation to the data page with no
\* error recorded, and a cycle that ended after such a timeout did navigate to
\* the data page.
C16_UrlTimeoutProceeds ==
    /\ (trace # <<>> /\ trace[Len(trace)] = "url_timeout") =>
           pc = "nav" /\ ret = NoValue /\ exc = NoExc
    /\ CycleEnded /\ HasWord(trace, "url_timeout") => HasWord(trace, "get_data")

\* C16 witness: a cycle whose URL wait timed out returned an "ok" snapshot
\* with rows
C16_Witness ==
    /\ Returned
    /\ HasWord(trace, "url_timeout")
    /\ data.status = "ok"
    /\ data.count > 0

\* the last operation of the running cycle
LastOp == IF trace = <<>> THEN "none" ELSE trace[Len(trace)]

EmailFound == find_first(dom, EmailSelectors) # "None"
PwdFound == find_first(dom, PwdSelectors) # "None"

\* C17 (as stated): the wait for the login form ends as soon as the email or
\* the password input is present, and times out only when neither is.
C17_WaitEndsOnEitherField ==
    /\ (LastOp = "wait_form" /\ pc = "login_find") => (EmailFound \/ PwdFound)
    /\ (LastOp = "wait_form" /\ ret = ErrorSnapshot(TimeoutExc)) =>
           (~EmailFound /\ ~PwdFound)

\* C17 (amended): the wait for the login form ends when the email/username
\* input is present, whatever the password input; it times out, and the cycle
\* returns the timeout's error snapshot, exactly when no email/username input
\* is present, also on a page that shows the password input. The password
\* input is probed only after the wait, and a cycle that found one of the two
\* inputs missing then returns the error snapshot of the RuntimeError.
C17_WaitEndsOnEmailField ==
    /\ (LastOp = "wait_form" /\ pc = "login_find") => EmailFound
    /\ (LastOp = "wait_form" /\ ret = ErrorSnapshot(TimeoutExc)) =>
           (pc = "finally" /\ ~EmailFound)
    /\ (LastOp = "find_pwd" /\ ret = ErrorSnapshot(InputsExc)) =>
           (pc = "finally" /\ (~EmailFound \/ ~PwdFound))
    /\ (LastOp = "find_pwd" /\ pc = "login_type_email") => (EmailFound /\ PwdFound)

\* C17 witness: the page shows the password input only and the wait timed out
C17_Witness ==
    /\ LastOp = "wait_form"
    /\ dom = PwdPresent
    /\ pc = "finally"
    /\ ret = ErrorSnapshot(TimeoutExc)

\* C18: at every moment after the first publish at which no cycle is running
\* and no publish is pending, the published snapshot is the result of the most
\* recently ended cycle: every ended cycle has a result, and the latest one is
\* what is published; a cycle that failed after an "ok" snapshot leaves an
\* error snapshot with no rows.
C18_PublishedIsLastCycleResult ==
    (writes > 0 /\ pc \in {"sleep", "sleeping", "loop", "dead"}) =>
        /\ Len(results) = cycle
        /\ latest = results[Len(results)]

\* the operations that send text or a click to the login page
TypingOps == {"type_email", "type_pwd", "click_submit", "enter_in_pwd"}
SubmitOps == {"click_submit", "enter_in_pwd"}

\* C19: text or a click is sent to the login page only when both inputs were
\* found; when the page probed after the wait lacks one of them nothing is
\* typed or submitted and the cycle returns the error snapshot of the
\* RuntimeError; the email is typed right after the probing, the password right
\* after the email, and the submission right after the password, by a click
\* when a submit control was found and from the password input otherwise.
C19_TypeOnlyWhenBothFound ==
    /\ LastOp \in TypingOps => (EmailFound /\ PwdFound)
    /\ (LastOp = "find_pwd" /\ (~EmailFound \/ ~PwdFound)
            /\ exc = NoExc /\ ret # ErrorSnapshot(DriverExc)) =>
           (pc = "finally" /\ ret = ErrorSnapshot(InputsExc))
    /\ ((pc = "finally" \/ CycleEnded) /\ ret = ErrorSnapshot(InputsExc)) =>
           \A i \in 1..Len(trace) : trace[i] \notin TypingOps
    /\ \A i \in 1..Len(trace) :
           /\ trace[i] = "type_email" => (i > 1 /\ trace[i - 1] = "find_pwd")
           /\ trace[i] = "type_pwd" => (i > 1 /\ trace[i - 1] = "type_email")
           /\ trace[i] \in SubmitOps => (i > 1 /\ trace[i - 1] = "type_pwd")
    /\ LastOp = "click_submit" => find_first(dom, SubmitSelectors) # "None"
    /\ LastOp = "enter_in_pwd" => find_first(dom, SubmitSelectors) = "None"

\* C19 witness: the first cycle ended with the RuntimeError of the missing
\* input, the second filled both inputs of a page without a submit control and
\* submitted from the password input
C19_Witness ==
    /\ Len(results) = 1
    /\ results[1] = ErrorSnapshot(InputsExc)
    /\ pc = "login_url"
    /\ trace = <<"service_start", "open", "get_login", "wait_form", "find_email",
                 "find_pwd", "type_email", "type_pwd", "enter_in_pwd">>

\* a snapshot whose count is the number of its measuring points
CountMatches(snap) == snap.count = Len(snap.measuring_points)

\* C20: the published snapshot and every response a reader holds have one of
\* the three statuses and a count equal to the length of measuring_points;
\* before the first publish the published snapshot is the initial one, and
\* from the first publish on its status is never "init".
C20_CountIsLengthAndInitOnlyAtStart ==
    /\ latest.status \in {"init", "ok", "error"}
    /\ CountMatches(latest)
    /\ \A r \in Readers :
           rpc[r] = "returning" =>
               /\ resp[r].status \in {"init", "ok", "error"}
               /\ CountMatches(resp[r])
    /\ writes = 0 => latest = InitialSnapshot
    /\ writes > 0 => latest.status # "init"

\* C20 witness: after an error snapshot, an "ok" snapshot with two rows was
\* published and a reader holds it as its response
C20_Witness ==
    /\ writes = 2
    /\ results[1].status = "error"
    /\ latest.status = "ok"
    /\ latest.count = 2
    /\ \E r \in Readers : rpc[r] = "returning" /\ resp[r] = latest

====
